---- MODULE Spec2Model ----
(***************************************************************************)
(* txwrap: a wrapper around sqlx.Tx that begins one transaction per chain  *)
(* of nested WithTx/DBGWithTx calls, latches the first error of the facade *)
(* operations, and commits or rolls back when the owning call ends.        *)
(*                                                                         *)
(* The model follows src/txwrap.go.  A goroutine is a stack of live calls  *)
(* (DBGWithTx callbacks and TxWrap.Run functions), each with the calls it   *)
(* has made on the DBGetter and the driver.  The callback and the          *)
(* function given to Run are caller code: at any moment they may perform a *)
(* facade operation, make a nested call, return, panic or runtime.Goexit.  *)
(* The database driver and the DBGetter are external: the result of each   *)
(* of their calls is an input chosen with \E.                              *)
(***************************************************************************)
EXTENDS Integers, Sequences, FiniteSets, TLC

\* ---------------------------------------------------------------- bounds
\* DBGWithTx / WithTx calls made in one behaviour
MaxCalls == 2
\* live frames (callbacks and Run functions) on one goroutine's stack
MaxDepth == 3
\* facade operations called in one behaviour
MaxOps == 2
\* rows a SelectMaps query delivers
MaxRows == 1

\* ---------------------------------------------------------------- values
\* Go's nil (error, pointer, interface, slice, map)
Nil == "nil"
ErrNoRows == "sql.ErrNoRows"
ErrTxDone == "sql.ErrTxDone"
ErrNilDBArg == "invalid nil DB passed to WithTx"
ErrNilDB == "GetDB returned nil DB"
\* errors a statement can fail with, and errors a callback can return
StmtErrs == {"E1", "E2"}
FnErrs == {Nil, "E1", "E2"}
DBs == {"dbA"}
\* what recover() answers for the value a callback panicked with: a non-nil
\* value (for panic(nil) too from Go 1.21 on: a *runtime.PanicNilError), or nil
\* for panic(nil) in a build with the older behaviour (a go.mod below 1.21, or
\* GODEBUG=panicnil=1)
PanicVals == {"P1", Nil}
Goroutines == {"g1", "g2"}

\* ---------------------------------------------------------------- context
\* A context.Context is the chain of its WithValue pairs, innermost first.
Background == <<>>
txWrapKey == "txWrapKey"
otherKey == "otherKey"
\* ctx.Value(key) found nothing
NoTx == 0

WithValue(parent, key, val) == <<[key |-> key, val |-> val]>> \o parent

RECURSIVE Value(_, _)
Value(ctx, key) ==
    IF ctx = <<>> THEN NoTx
    ELSE IF Head(ctx).key = key THEN Head(ctx).val
    ELSE Value(Tail(ctx), key)

\* a test that finds no wrapper in any context
IsTxWrapContextNever(ctx) == FALSE

\* lines 42-45
IsTxWrapContext(ctx) == Value(ctx, txWrapKey) # NoTx

VARIABLES
    procs,        \* the goroutines that run
    wraps,        \* the TxWrap objects allocated so far; a *TxWrap is an index
    stack,        \* per goroutine: the live calls, outermost first
    unw,          \* per goroutine: the panic or Goexit unwinding its stack
    lastCall,     \* the DBGWithTx / WithTx call that has just ended, with the calls it made
    lastOp,       \* the facade operation that has just been called, and what it returned
    firstFail,    \* per wrapper whose transaction is open: the first error latched, and where
    nCalls,       \* DBGWithTx / WithTx calls made
    nOps          \* facade operations called

vars == <<procs, wraps, stack, unw, lastCall, lastOp, firstFail, nCalls, nOps>>

\* tx.Context()
Context(w) == WithValue(wraps[w].ctx, txWrapKey, w)

\* ------------------------------------------------------- facade operations
\* Each operation is a function of the wrapper and of what the driver answers;
\* it yields the wrapper afterwards, the value returned, the destination the
\* driver filled, and the number of driver calls made.
Latch(tx, err) == [tx EXCEPT !.Err = err]

R(tx, ret, dest, calls) == [tx |-> tx, ret |-> ret, dest |-> dest, calls |-> calls]

\* the sql.Result the driver hands back with err
DriverResult(err) == IF err = Nil THEN "result" ELSE Nil

NamedExec(tx, out) ==
    IF tx.Err # Nil THEN R(tx, Nil, "zero", 0)
    ELSE IF out # Nil THEN R(Latch(tx, out), DriverResult(out), "zero", 1)
    ELSE R(tx, DriverResult(out), "zero", 1)

Exec(tx, out) ==
    IF tx.Err # Nil THEN R(tx, Nil, "zero", 0)
    ELSE IF out # Nil THEN R(Latch(tx, out), DriverResult(out), "zero", 1)
    ELSE R(tx, DriverResult(out), "zero", 1)

\* Get treating sql.ErrNoRows as any other error
GetLatchesNoRows(tx, out) ==
    IF tx.Err # Nil THEN R(tx, "false", "zero", 0)
    ELSE IF out # Nil THEN R(Latch(tx, out), "false", "zero", 1)
    ELSE R(tx, "true", "val", 1)

Get(tx, out) ==
    IF tx.Err # Nil THEN R(tx, "false", "zero", 0)
    ELSE IF out # Nil /\ out = ErrNoRows THEN R(tx, "false", "zero", 1)
    ELSE IF out # Nil THEN R(Latch(tx, out), "false", "zero", 1)
    ELSE R(tx, "true", "val", 1)

Exists(tx, out) == Get(tx, out)

GetString(tx, out) ==
    LET g == Get(tx, out)
    IN  [g EXCEPT !.ret = IF g.dest = "val" THEN "str" ELSE "emptystring"]

GetBool(tx, out) ==
    LET g == Get(tx, out)
    IN  [g EXCEPT !.ret = IF g.dest = "val" THEN "true" ELSE "false"]

GetInt(tx, out) ==
    LET g == Get(tx, out)
    IN  [g EXCEPT !.ret = IF g.dest = "val" THEN "7" ELSE "0"]

\* Select without the check of tx.Err
SelectUnguarded(tx, out) ==
    IF out # Nil THEN R(Latch(tx, out), "void", "partial", 1)
    ELSE R(tx, "void", "val", 1)

Select(tx, out) ==
    IF tx.Err # Nil THEN R(tx, "void", "zero", 0)
    ELSE IF out # Nil THEN R(Latch(tx, out), "void", "partial", 1)
    ELSE R(tx, "void", "val", 1)

SelectStrings(tx, out) ==
    LET s == Select(tx, out)
    IN  [s EXCEPT !.ret = IF s.dest = "val" THEN "strings"
                          ELSE IF s.dest = "partial" THEN "partial" ELSE Nil]

GetMap(tx, out) ==
    IF tx.Err # Nil THEN R(tx, Nil, "zero", 0)
    ELSE IF out # Nil
         THEN IF out = ErrNoRows THEN R(tx, Nil, "zero", 1)
              ELSE R(Latch(tx, out), Nil, "zero", 1)
    ELSE R(tx, "map", "zero", 1)

\* The loop of SelectMaps over the rows the driver delivers: scans[i] is what
\* MapScan answers for row i.  Yields the error that ended the loop early (or
\* Nil) and the number of maps appended.
RECURSIVE ScanRows(_, _, _)
ScanRows(scans, i, n) ==
    IF i > Len(scans) THEN [err |-> Nil, n |-> n]
    ELSE IF scans[i] # Nil THEN [err |-> scans[i], n |-> n]
    ELSE ScanRows(scans, i + 1, n + 1)

\* rows.scans: the rows delivered before rows.Next() answered false;
\* rows.err: rows.Err() afterwards, the failure that ended the iteration.
SelectMaps(tx, qerr, rows) ==
    IF tx.Err # Nil THEN R(tx, Nil, "zero", 0)
    ELSE IF qerr # Nil THEN R(Latch(tx, qerr), Nil, "zero", 1)
    ELSE LET l == ScanRows(rows.scans, 1, 0)
         IN  IF l.err # Nil THEN R(Latch(tx, l.err), Nil, "zero", 1)
             ELSE R(tx, IF l.n = 0 THEN Nil ELSE "maps", "zero", 1)

\* Run: whether fn is invoked, and what Run does with what fn returned
RunInvokes(tx) == tx.Err = Nil

RunAfter(tx, err) == IF err # Nil THEN Latch(tx, err) ELSE tx

\* ------------------------------------------------------------- DBGWithTx
\* a lookup that never finds the wrapper
CtxWrapNone(ctx) == NoTx

\* a lookup in one global slot that holds the latest wrapper
CtxWrapGlobal(ctx) == Len(wraps)

\* lines 80-86: the wrapper the context carries
CtxWrap(ctx) == Value(ctx, txWrapKey)

\* a call that never looks at the Err of the wrapper it finds
ShortCircuitsNever(cw) == FALSE

\* lines 81-85: the context carries a wrapper with an error latched
ShortCircuits(cw) == cw # NoTx /\ wraps[cw].Err # Nil

\* lines 113-116: the callback returned fnErr
AfterFn(tx, fnErr) ==
    IF tx.Err = Nil /\ fnErr # Nil THEN Latch(tx, fnErr) ELSE tx

\* what recover() answers in a deferred function
Recover(u) == IF u.kind = "panic" THEN u.val ELSE Nil

\* a deferred function that calls Commit and drops what it answers
DeferredTxDropsCommitErr(p, rtnErr, commitOut) ==
    IF p # Nil THEN [call |-> "Rollback", rtn |-> rtnErr, repanic |-> TRUE]
    ELSE IF rtnErr # Nil THEN [call |-> "Rollback", rtn |-> rtnErr, repanic |-> FALSE]
    ELSE [call |-> "Commit", rtn |-> rtnErr, repanic |-> FALSE]

\* lines 101-111: the deferred function of the call that began the transaction.
\* p is what recover() answered, rtnErr the named result so far, commitOut what
\* Commit answers if it is called.
DeferredTx(p, rtnErr, commitOut) ==
    IF p # Nil THEN [call |-> "Rollback", rtn |-> rtnErr, repanic |-> TRUE]
    ELSE IF rtnErr # Nil THEN [call |-> "Rollback", rtn |-> rtnErr, repanic |-> FALSE]
    ELSE [call |-> "Commit", rtn |-> commitOut, repanic |-> FALSE]


\* ------------------------------------------------------------------ state
\* One call made by DBGWithTx, or one point of its run: what was called (ev),
\* with which handle or how (val), what it answered (err), and the wrapper's
\* Err at that moment (at).
Ev(ev, val, err, at) == [ev |-> ev, val |-> val, err |-> err, at |-> at]

\* The first error latched on a wrapper: by a facade operation ("op") or by a
\* nested call latching what its callback returned ("fn"); nested: it was
\* latched while a nested call on the wrapper was running.
NoFail == [err |-> Nil, by |-> "none", nested |-> FALSE]

\* A live call: a DBGWithTx callback (kind "tx") or a Run function (kind "run").
\* ctxw: the wrapper carried by the context the call was given (NoTx: none);
\* w: the wrapper handed to the callback; owner: this call began the
\* transaction; db: the handle it got from GetDB; evs: what the call has done;
\* first: once the call has ended, the first error latched on w before the
\* callback of the call that began the transaction returned.
Frame(kind, ctxw, w, owner, db, evs) ==
    [kind |-> kind, ctxw |-> ctxw, w |-> w, owner |-> owner, db |-> db, evs |-> evs,
     first |-> NoFail]

\* the record of the call of frame f once it has ended
EndOf(f, evs, first) == [f EXCEPT !.evs = f.evs \o evs, !.first = first]

NoUnw == [kind |-> "none", val |-> Nil]

NoCall == Frame("none", NoTx, NoTx, FALSE, Nil, <<>>)

NoOp == [op |-> "none", w |-> NoTx, before |-> Nil, out |-> Nil, ret |-> Nil,
         calls |-> 0, fail |-> Nil]

Top(g) == stack[g][Len(stack[g])]

Pop(g) == [stack EXCEPT ![g] = SubSeq(stack[g], 1, Len(stack[g]) - 1)]

Push(g, f) == [stack EXCEPT ![g] = Append(stack[g], f)]

\* goroutine g runs caller code (it is not unwinding)
Running(g) == g \in procs /\ unw[g].kind = "none"

\* g is inside a callback or a Run function
InFn(g) == Running(g) /\ stack[g] # <<>>

\* the innermost live DBGWithTx call of g
InnerTx(g) ==
    LET is == {i \in 1..Len(stack[g]) : stack[g][i].kind = "tx"}
    IN  stack[g][CHOOSE i \in is : \A j \in is : j <= i]

\* g is running a nested call that was handed wrapper w
Nested(g, w) == ~InnerTx(g).owner /\ InnerTx(g).w = w

\* the wrappers the live callbacks of g were handed
InScope(g) == {stack[g][i].w : i \in 1..Len(stack[g])}

\* the contexts caller code can pass: the background context, tx.Context() of a
\* wrapper, and a context derived from that with another key
CallCtxs ==
    LET own == {Context(w) : w \in 1..Len(wraps)}
    IN  {Background} \cup own \cup {WithValue(c, otherKey, 1) : c \in own}

\* what GetDB can answer, and what BeginTxx answers on the handle it gave
NotAsked == [db |-> Nil, err |-> Nil]

GetDBOuts == {[db |-> d, err |-> e] : d \in DBs \cup {Nil}, e \in {Nil, "EG"}}

\* GetDB answers only when it is asked: not to a call that reuses a wrapper
GetDBAnswers(ctx) ==
    IF CtxWrap(ctx) # NoTx THEN {NotAsked} ELSE GetDBOuts

BeginOuts(db, err) == IF db # Nil /\ err = Nil THEN {Nil, "EB"} ELSE {Nil}

\* the Commit or Rollback call a deferred function makes; what Rollback answers
\* is discarded (lines 103 and 107)
TxEnd(call, out, at) == Ev(call, Nil, IF call = "Commit" THEN out ELSE Nil, at)

\* the state of a sql.Tx after Commit or Rollback was called on it: it is done,
\* whatever the call answered
Finished(call, out) == "done"

\* no deferred ReleaseDB
ReleaseDeferNone(db, at) == <<>>

\* the deferred ReleaseDB (line 95)
ReleaseDefer(db, at) == <<Ev("ReleaseDB", db, Nil, at)>>

\* deferred functions run in the order they were registered
RunDefersFIFO(call, out, db, at) == ReleaseDefer(db, at) \o <<TxEnd(call, out, at)>>

\* the deferred functions of the call that began the transaction run last in,
\* first out: the commit-or-rollback function (line 101), then ReleaseDB (line 95)
RunDefers(call, out, db, at) == <<TxEnd(call, out, at)>> \o ReleaseDefer(db, at)

\* the wrapper a context carries, as a caller sees it
Carried(ctx) == IF IsTxWrapContext(ctx) THEN Value(ctx, txWrapKey) ELSE NoTx

\* the Err of the wrapper a context carries, Nil if it carries none
ErrIn(ctx) == IF IsTxWrapContext(ctx) THEN wraps[Carried(ctx)].Err ELSE Nil

\* DBGWithTx is called with ctx
Called(ctx) == Ev("Call", Nil, Nil, ErrIn(ctx))

\* a call that ended before any callback ran: its record
Ended(ctx, evs) == Frame("tx", Carried(ctx), NoTx, FALSE, Nil, <<Called(ctx)>> \o evs)

Init ==
    /\ procs = {"g1"}
    /\ wraps = <<>>
    /\ stack = [g \in Goroutines |-> <<>>]
    /\ unw = [g \in Goroutines |-> NoUnw]
    /\ lastCall = NoCall
    /\ lastOp = NoOp
    /\ firstFail = <<>>
    /\ nCalls = 0
    /\ nOps = 0

\* ------------------------------------------------------------------ calls
\* a BeginTxx whose error is never looked at
BeginFailedNever(beginErr) == FALSE

\* lines 97-99: BeginTxx answered an error
BeginFailed(beginErr) == beginErr # Nil

\* DBGWithTx up to the invocation of fn (lines 79-113), or to its early return.
\* gd is what GetDB answers, beginErr what BeginTxx answers.
DBGWithTxEnter(g, ctx, gd, beginErr) ==
    LET cw == CtxWrap(ctx)
        getdb == Ev("GetDB", gd.db, gd.err, Nil)
        nw == Len(wraps) + 1
    IN  IF ShortCircuits(cw)
        THEN /\ lastCall' = Ended(ctx, <<Ev("Exit", "return", wraps[cw].Err, wraps[cw].Err)>>)
             /\ UNCHANGED <<wraps, stack, firstFail>>
        ELSE IF cw # NoTx
        THEN /\ stack' = Push(g, Frame("tx", Carried(ctx), cw, FALSE, Nil,
                                       <<Called(ctx), Ev("Fn", wraps[cw].Txx, Nil, Nil)>>))
             /\ lastCall' = NoCall
             /\ UNCHANGED <<wraps, firstFail>>
        ELSE IF gd.err # Nil
        THEN /\ lastCall' = Ended(ctx, <<getdb, Ev("Exit", "return", gd.err, Nil)>>)
             /\ UNCHANGED <<wraps, stack, firstFail>>
        ELSE IF gd.db = Nil
        THEN /\ lastCall' = Ended(ctx, <<getdb, Ev("Exit", "return", ErrNilDB, Nil)>>)
             /\ UNCHANGED <<wraps, stack, firstFail>>
        ELSE IF BeginFailed(beginErr)
        THEN /\ lastCall' = Ended(ctx, <<getdb, Ev("Begin", gd.db, beginErr, Nil)>>
                                       \o ReleaseDefer(gd.db, Nil)
                                       \o <<Ev("Exit", "return", beginErr, Nil)>>)
             /\ UNCHANGED <<wraps, stack, firstFail>>
        ELSE /\ wraps' = Append(wraps, [Txx |-> "open", Err |-> Nil, ctx |-> ctx])
             /\ firstFail' = Append(firstFail, NoFail)
             /\ stack' = Push(g, Frame("tx", Carried(ctx), nw, TRUE, gd.db,
                                       <<Called(ctx), getdb, Ev("Begin", gd.db, beginErr, Nil),
                                         Ev("Fn", "open", Nil, Nil)>>))
             /\ lastCall' = NoCall

CanCall(g) ==
    /\ Running(g)
    /\ nCalls < MaxCalls
    /\ Len(stack[g]) < MaxDepth

DBGWithTx(g, ctx, gd, beginErr) ==
    /\ CanCall(g)
    /\ nCalls' = nCalls + 1
    /\ DBGWithTxEnter(g, ctx, gd, beginErr)
    /\ lastOp' = NoOp
    /\ UNCHANGED <<procs, unw, nOps>>

\* WithTx (lines 62-68): SimpleDBGetter answers GetDB with db itself
WithTx(g, ctx, db, beginErr) ==
    /\ CanCall(g)
    /\ nCalls' = nCalls + 1
    /\ IF db = Nil
       THEN /\ lastCall' = Frame("tx", Carried(ctx), NoTx, FALSE, Nil,
                                  <<Ev("WithTx", Nil, Nil, ErrIn(ctx)),
                                    Ev("Exit", "return", ErrNilDBArg, Nil)>>)
            /\ UNCHANGED <<wraps, stack, firstFail>>
       ELSE DBGWithTxEnter(g, ctx, [db |-> db, err |-> Nil], beginErr)
    /\ lastOp' = NoOp
    /\ UNCHANGED <<procs, unw, nOps>>

\* the callback returns fnErr: lines 113-120, then the deferred functions.
\* endOut is what Commit or Rollback answers.
FnReturn(g, fnErr, endOut) ==
    /\ InFn(g)
    /\ Top(g).kind = "tx"
    /\ LET f == Top(g)
           tx0 == wraps[f.w]
           tx1 == AfterFn(tx0, fnErr)
           rtnErr == tx1.Err
           d == DeferredTx(Recover(unw[g]), rtnErr, endOut)
           fnEnd == Ev("FnEnd", "return", fnErr, tx0.Err)
       IN  IF f.owner
           THEN /\ wraps' = [wraps EXCEPT ![f.w] = [tx1 EXCEPT !.Txx = Finished(d.call, endOut)]]
                /\ lastCall' = EndOf(f, <<fnEnd>>
                                        \o RunDefers(d.call, endOut, f.db, tx1.Err)
                                        \o <<Ev("Exit", "return", d.rtn, tx1.Err)>>,
                                     firstFail[f.w])
                /\ firstFail' = [firstFail EXCEPT ![f.w] = NoFail]
           ELSE /\ wraps' = [wraps EXCEPT ![f.w] = tx1]
                /\ lastCall' = EndOf(f, <<fnEnd, Ev("Exit", "return", rtnErr, tx1.Err)>>,
                                     firstFail[f.w])
                /\ firstFail' = [firstFail EXCEPT ![f.w] =
                                     IF tx0.Err = Nil /\ tx1.Err # Nil /\ tx0.Txx = "open"
                                     THEN [err |-> tx1.Err, by |-> "fn", nested |-> TRUE]
                                     ELSE @]
    /\ stack' = Pop(g)
    /\ lastOp' = NoOp
    /\ UNCHANGED <<procs, unw, nCalls, nOps>>

\* caller code panics with a value that recover() will answer as v
Panic(g, v) ==
    /\ InFn(g)
    /\ unw' = [unw EXCEPT ![g] = [kind |-> "panic", val |-> v]]
    /\ lastCall' = NoCall
    /\ lastOp' = NoOp
    /\ UNCHANGED <<procs, wraps, stack, firstFail, nCalls, nOps>>

\* caller code calls runtime.Goexit (testing.T.FailNow does)
Goexit(g) ==
    /\ InFn(g)
    /\ unw' = [unw EXCEPT ![g] = [kind |-> "goexit", val |-> Nil]]
    /\ lastCall' = NoCall
    /\ lastOp' = NoOp
    /\ UNCHANGED <<procs, wraps, stack, firstFail, nCalls, nOps>>

\* a panic or Goexit leaves the innermost live call, running its deferred
\* functions (lines 95 and 101-111); rtnErr is still nil, nothing returned
Unwind(g, endOut) ==
    /\ g \in procs
    /\ unw[g].kind # "none"
    /\ stack[g] # <<>>
    /\ LET f == Top(g)
           u == unw[g]
           d == DeferredTx(Recover(u), Nil, endOut)
           at == wraps[f.w].Err
           fnEnd == Ev("FnEnd", u.kind, u.val, at)
           out == Ev("Exit", u.kind, u.val, at)
           recovered == u.kind = "panic" /\ ~d.repanic
       IN  IF f.kind = "tx" /\ f.owner
           THEN /\ wraps' = [wraps EXCEPT ![f.w].Txx = Finished(d.call, endOut)]
                /\ lastCall' = EndOf(f, <<fnEnd>>
                                        \o RunDefers(d.call, endOut, f.db, at)
                                        \o <<IF recovered THEN Ev("Exit", "return", d.rtn, at)
                                             ELSE out>>,
                                     firstFail[f.w])
                /\ firstFail' = [firstFail EXCEPT ![f.w] = NoFail]
                /\ unw' = IF recovered THEN [unw EXCEPT ![g] = NoUnw] ELSE unw
           ELSE /\ lastCall' = IF f.kind = "tx"
                               THEN EndOf(f, <<fnEnd, out>>, firstFail[f.w])
                               ELSE NoCall
                /\ UNCHANGED <<wraps, unw, firstFail>>
    /\ stack' = Pop(g)
    /\ lastOp' = NoOp
    /\ UNCHANGED <<procs, nCalls, nOps>>

\* ------------------------------------------------------- facade actions
Ops == {"NamedExec", "Exec", "Get", "Exists", "GetString", "GetBool", "GetInt",
        "Select", "SelectStrings", "GetMap"}

\* the operations whose driver call reports "no rows" (sqlx Get, Row.MapScan)
RowOps == {"Get", "Exists", "GetString", "GetBool", "GetInt", "GetMap"}

Apply(op, tx, out) ==
    CASE op = "NamedExec" -> NamedExec(tx, out)
      [] op = "Exec" -> Exec(tx, out)
      [] op = "Get" -> Get(tx, out)
      [] op = "Exists" -> Exists(tx, out)
      [] op = "GetString" -> GetString(tx, out)
      [] op = "GetBool" -> GetBool(tx, out)
      [] op = "GetInt" -> GetInt(tx, out)
      [] op = "Select" -> Select(tx, out)
      [] op = "SelectStrings" -> SelectStrings(tx, out)
      [] op = "GetMap" -> GetMap(tx, out)

\* what the driver can answer to a statement on tx: a finished sql.Tx answers
\* sql.ErrTxDone to everything
Outcomes(op, tx) ==
    IF tx.Txx # "open" THEN {ErrTxDone}
    ELSE {Nil} \cup StmtErrs \cup (IF op \in RowOps THEN {ErrNoRows} ELSE {})

\* the driver answers only when it is asked: an operation that makes no driver
\* call gets no answer
Answers(op, tx) == IF Apply(op, tx, Nil).calls = 0 THEN {Nil} ELSE Outcomes(op, tx)

\* the rows a query can deliver: n rows that scan, or n - 1 that scan and one
\* that does not, and then the end of the rows or a failure of the iteration
Scans(n, bad) == [i \in 1..n |-> IF bad /\ i = n THEN "E1" ELSE Nil]

NoRows == [scans |-> <<>>, err |-> Nil]

RowSets ==
    {[scans |-> Scans(n, bad), err |-> e] :
        n \in 0..MaxRows, bad \in BOOLEAN, e \in {Nil, "E2"}}

\* what the driver can answer to the query of SelectMaps and deliver as rows
QueryOuts ==
    {[qerr |-> q, rows |-> NoRows] : q \in StmtErrs \cup {ErrTxDone}}
        \cup {[qerr |-> Nil, rows |-> r] : r \in RowSets}

\* the failure the driver reported during SelectMaps, if any
RowsFailure(qerr, rows) ==
    IF qerr # Nil THEN qerr
    ELSE LET l == ScanRows(rows.scans, 1, 0)
         IN  IF l.err # Nil THEN l.err ELSE rows.err

CanOp(g, w) ==
    /\ InFn(g)
    /\ nOps < MaxOps
    /\ w \in InScope(g)

\* the operation returns: r is what it computed, out what the driver answered to
\* its statement, fail the failure the driver reported during the operation
Done(g, op, w, r, out, fail) ==
    /\ wraps' = [wraps EXCEPT ![w] = r.tx]
    /\ lastOp' = [op |-> op, w |-> w, before |-> wraps[w].Err,
                  out |-> IF r.calls > 0 THEN out ELSE Nil, ret |-> r.ret,
                  calls |-> r.calls, fail |-> IF r.calls > 0 THEN fail ELSE Nil]
    /\ firstFail' = [firstFail EXCEPT ![w] =
                         IF wraps[w].Err = Nil /\ r.tx.Err # Nil /\ wraps[w].Txx = "open"
                         THEN [err |-> r.tx.Err, by |-> "op", nested |-> Nested(g, w)]
                         ELSE @]
    /\ lastCall' = NoCall
    /\ nOps' = nOps + 1

FacadeOp(g, w, op, out) ==
    /\ CanOp(g, w)
    /\ out \in Answers(op, wraps[w])
    /\ Done(g, op, w, Apply(op, wraps[w], out), out, IF out = ErrNoRows THEN Nil ELSE out)
    /\ UNCHANGED <<procs, stack, unw, nCalls>>

SelectMapsOp(g, w, qerr, rows) ==
    /\ CanOp(g, w)
    /\ IF SelectMaps(wraps[w], Nil, NoRows).calls = 0
       THEN qerr = Nil /\ rows = NoRows
       ELSE qerr \in Outcomes("SelectMaps", wraps[w])
    /\ Done(g, "SelectMaps", w, SelectMaps(wraps[w], qerr, rows), qerr, RowsFailure(qerr, rows))
    /\ UNCHANGED <<procs, stack, unw, nCalls>>

\* tx.Run(fn), lines 250-254: fn starts running unless an error is latched
Run(g, w) ==
    /\ CanOp(g, w)
    /\ Len(stack[g]) < MaxDepth \/ ~RunInvokes(wraps[w])
    /\ stack' = IF RunInvokes(wraps[w])
                THEN Push(g, Frame("run", NoTx, w, FALSE, Nil, <<>>))
                ELSE stack
    /\ lastOp' = [op |-> "Run", w |-> w, before |-> wraps[w].Err,
                  out |-> Nil, ret |-> IF RunInvokes(wraps[w]) THEN "invoked" ELSE "void",
                  calls |-> 0, fail |-> Nil]
    /\ lastCall' = NoCall
    /\ nOps' = nOps + 1
    /\ UNCHANGED <<procs, wraps, unw, firstFail, nCalls>>

\* fn returns err to Run, lines 254-258
RunReturn(g, err) ==
    /\ InFn(g)
    /\ Top(g).kind = "run"
    /\ wraps' = [wraps EXCEPT ![Top(g).w] = RunAfter(wraps[Top(g).w], err)]
    /\ lastOp' = [op |-> "RunReturn", w |-> Top(g).w, before |-> wraps[Top(g).w].Err,
                  out |-> err, ret |-> "void", calls |-> 0, fail |-> Nil]
    /\ firstFail' = [firstFail EXCEPT ![Top(g).w] =
                         IF @.err = Nil /\ err # Nil /\ wraps[Top(g).w].Txx = "open"
                         THEN [err |-> err, by |-> "op", nested |-> Nested(g, Top(g).w)]
                         ELSE @]
    /\ lastCall' = NoCall
    /\ stack' = Pop(g)
    /\ UNCHANGED <<procs, unw, nCalls, nOps>>

\* what Commit or Rollback can answer when the innermost live call ends; only
\* the call that began the transaction asks
EndOuts(g) ==
    IF stack[g] # <<>> /\ Top(g).kind = "tx" /\ Top(g).owner THEN {Nil, "EC"} ELSE {Nil}

Next ==
    \E g \in Goroutines :
        \/ \E ctx \in CallCtxs : \E gd \in GetDBAnswers(ctx) : \E be \in BeginOuts(gd.db, gd.err) :
               DBGWithTx(g, ctx, gd, be)
        \/ \E ctx \in CallCtxs, db \in DBs \cup {Nil} : \E be \in BeginOuts(db, Nil) :
               WithTx(g, ctx, db, be)
        \/ \E e \in FnErrs, o \in EndOuts(g) : FnReturn(g, e, o)
        \/ \E v \in PanicVals : Panic(g, v)
        \/ Goexit(g)
        \/ \E o \in EndOuts(g) : Unwind(g, o)
        \/ \E w \in 1..Len(wraps), op \in Ops, out \in StmtErrs \cup {Nil, ErrNoRows, ErrTxDone} :
               FacadeOp(g, w, op, out)
        \/ \E w \in 1..Len(wraps), q \in QueryOuts : SelectMapsOp(g, w, q.qerr, q.rows)
        \/ \E w \in 1..Len(wraps) : Run(g, w)
        \/ \E e \in FnErrs : RunReturn(g, e)

Spec == Init /\ [][Next]_vars

\* two goroutines run from the start
InitFlows ==
    /\ procs = Goroutines
    /\ wraps = <<>>
    /\ stack = [g \in Goroutines |-> <<>>]
    /\ unw = [g \in Goroutines |-> NoUnw]
    /\ lastCall = NoCall
    /\ lastOp = NoOp
    /\ firstFail = <<>>
    /\ nCalls = 0
    /\ nOps = 0

\* the facade operations the flows perform
FlowOps == {"Exec", "Get", "Select"}

\* two goroutines, each making calls, performing facade operations and
\* returning from callbacks, interleaved in any order
NextFlows ==
    \E g \in Goroutines :
        \/ \E ctx \in CallCtxs : \E gd \in GetDBAnswers(ctx) : \E be \in BeginOuts(gd.db, gd.err) :
               DBGWithTx(g, ctx, gd, be)
        \/ \E e \in FnErrs, o \in EndOuts(g) : FnReturn(g, e, o)
        \/ \E w \in 1..Len(wraps), op \in FlowOps, out \in StmtErrs \cup {Nil, ErrNoRows, ErrTxDone} :
               FacadeOp(g, w, op, out)

SpecFlows == InitFlows /\ [][NextFlows]_vars


\* ================================================================ claims
\* the calls on record: the live ones and the one that has just ended
Recs ==
    {c \in ({lastCall} \cup UNION {{stack[g][i] : i \in 1..Len(stack[g])} : g \in Goroutines}) :
        c.kind = "tx"}

N(c, ev) == Cardinality({i \in DOMAIN c.evs : c.evs[i].ev = ev})

Has(c, ev) == \E i \in DOMAIN c.evs : c.evs[i].ev = ev

Pos(c, ev) == CHOOSE i \in DOMAIN c.evs : c.evs[i].ev = ev

EvOf(c, ev) == c.evs[Pos(c, ev)]

Exited(c) == Has(c, "Exit")

\* the call that has just ended is one that began a transaction
OwnerEnded == lastCall.kind = "tx" /\ lastCall.owner

\* the zero value of the result type of each facade operation
ZeroValue(op) ==
    CASE op \in {"NamedExec", "Exec", "SelectStrings", "SelectMaps", "GetMap"} -> Nil
      [] op \in {"Get", "Exists", "GetBool"} -> "false"
      [] op = "GetString" -> "emptystring"
      [] op = "GetInt" -> "0"
      [] op \in {"Select", "Run"} -> "void"

\* C1: in a chain of calls linked by tx.Context(), the call given a context
\* without a wrapper calls Begin exactly once and, once it has ended, exactly one
\* of Commit and Rollback exactly once; a call given a context that carries a
\* wrapper never calls Begin, Commit or Rollback.
C1_SingleBeginEnd ==
    \A c \in Recs :
        /\ c.ctxw # NoTx =>
               N(c, "Begin") = 0 /\ N(c, "Commit") = 0 /\ N(c, "Rollback") = 0
        /\ c.ctxw = NoTx /\ Has(c, "Fn") =>
               /\ N(c, "Begin") = 1
               /\ N(c, "Commit") + N(c, "Rollback") = (IF Exited(c) THEN 1 ELSE 0)

\* a nested call given tx.Context() has ended inside the callback of the call
\* that began the transaction
C1_Witness ==
    /\ lastCall.kind = "tx" /\ lastCall.ctxw # NoTx /\ Has(lastCall, "Fn")
    /\ \E g \in Goroutines : \E i \in 1..Len(stack[g]) :
           stack[g][i].owner /\ stack[g][i].w = lastCall.ctxw

\* C2: in the call that began the transaction, Commit is called if and only if
\* the callback returned normally with a nil error while Err was nil; otherwise
\* Rollback is called and Commit is not; the call returns nil only when Commit
\* was called and succeeded.
C2_CommitIffClean ==
    OwnerEnded =>
        LET fe == EvOf(lastCall, "FnEnd")
            clean == fe.val = "return" /\ fe.err = Nil /\ fe.at = Nil
        IN  /\ N(lastCall, "Commit") = 1 <=> clean
            /\ ~clean => N(lastCall, "Rollback") = 1 /\ N(lastCall, "Commit") = 0
            /\ EvOf(lastCall, "Exit").val = "return" /\ EvOf(lastCall, "Exit").err = Nil
                   => Has(lastCall, "Commit") /\ EvOf(lastCall, "Commit").err = Nil

\* C3: once a facade operation has failed with E1, later facade operations on
\* the wrapper make no driver call, and the call that began the transaction
\* returns exactly E1 when its callback returns, whatever the callback returns.
C3_FirstErrorReturned ==
    /\ lastOp.op \notin {"none", "RunReturn"} /\ lastOp.before # Nil => lastOp.calls = 0
    /\ OwnerEnded /\ EvOf(lastCall, "FnEnd").val = "return" /\ lastCall.first.by = "op"
           => /\ EvOf(lastCall, "Exit").val = "return"
              /\ EvOf(lastCall, "Exit").err = lastCall.first.err

\* C4: once the Err of a wrapper is non-nil, no step changes it.
C4_WriteOnce ==
    [][\A w \in DOMAIN wraps : wraps[w].Err # Nil => wraps'[w].Err = wraps[w].Err]_vars

\* C5: a facade operation called on a wrapper whose Err is non-nil makes no
\* driver call, does not invoke the function given to Run, leaves the wrapper
\* unchanged and returns the zero value of its result type.
C5_ShortCircuit ==
    [][lastOp'.op \notin {"none", "RunReturn"} /\ lastOp' # lastOp /\ lastOp'.before # Nil
           => /\ lastOp'.calls = 0
              /\ lastOp'.ret = ZeroValue(lastOp'.op)
              /\ wraps' = wraps
              /\ stack' = stack]_vars

\* a facade operation has just been called on a wrapper with an error latched
C5_Witness == lastOp.op \in Ops \cup {"SelectMaps", "Run"} /\ lastOp.before # Nil

\* C6: if the callback panics with p, the call that began the transaction calls
\* Rollback exactly once and never Commit, before the panic leaves it, and the
\* panic leaves it with the same p: it is not turned into a return.
C6_PanicSafety ==
    OwnerEnded /\ EvOf(lastCall, "FnEnd").val = "panic" =>
        /\ N(lastCall, "Rollback") = 1
        /\ N(lastCall, "Commit") = 0
        /\ EvOf(lastCall, "Exit").val = "panic"
        /\ EvOf(lastCall, "Exit").err = EvOf(lastCall, "FnEnd").err
        /\ Pos(lastCall, "Rollback") < Pos(lastCall, "Exit")

\* GetDB gave the call c a handle and no error
GotDB(c) == Has(c, "GetDB") /\ EvOf(c, "GetDB").val # Nil /\ EvOf(c, "GetDB").err = Nil

\* C7: a call that got a non-nil DB from GetDB calls ReleaseDB exactly once with
\* that DB before it ends, however it ends, and not more than once before; a
\* call that reused a wrapper, or whose GetDB gave an error or a nil DB, never
\* calls ReleaseDB, and a call that reused a wrapper never calls GetDB.
C7_ReleaseOnce ==
    \A c \in Recs :
        /\ GotDB(c) /\ Exited(c) =>
               /\ N(c, "ReleaseDB") = 1
               /\ EvOf(c, "ReleaseDB").val = EvOf(c, "GetDB").val
               /\ Pos(c, "ReleaseDB") < Pos(c, "Exit")
        /\ GotDB(c) => N(c, "ReleaseDB") <= 1
        /\ ~GotDB(c) => N(c, "ReleaseDB") = 0
        /\ c.ctxw # NoTx => N(c, "ReleaseDB") = 0 /\ N(c, "GetDB") = 0

\* a call that began a transaction has been left by a panic, its DB released
C7_Witness ==
    /\ OwnerEnded
    /\ EvOf(lastCall, "Exit").val = "panic"
    /\ N(lastCall, "ReleaseDB") = 1

\* the facade operations that ask the driver
DriverOps == Ops \cup {"SelectMaps"}

\* C8: when the driver answers sql.ErrNoRows, Get and Exists return false and
\* GetMap returns nil and Err stays nil; while Err is nil every operation asks
\* the driver; and when the callback returns nil with Err nil the call that began
\* the transaction calls Commit, not Rollback, and returns what Commit answered.
C8_NoRowsNoError ==
    /\ lastOp.op \in {"Get", "Exists", "GetMap"} /\ lastOp.out = ErrNoRows =>
           /\ lastOp.ret = (IF lastOp.op = "GetMap" THEN Nil ELSE "false")
           /\ wraps[lastOp.w].Err = Nil
    /\ lastOp.op \in DriverOps /\ lastOp.before = Nil => lastOp.calls > 0
    /\ OwnerEnded /\ EvOf(lastCall, "FnEnd").val = "return"
          /\ EvOf(lastCall, "FnEnd").err = Nil /\ EvOf(lastCall, "FnEnd").at = Nil
           => /\ N(lastCall, "Commit") = 1 /\ N(lastCall, "Rollback") = 0
              /\ EvOf(lastCall, "Exit").err = EvOf(lastCall, "Commit").err

\* Get, Exists or GetMap has just been answered sql.ErrNoRows
C8_Witness == lastOp.op \in {"Get", "Exists", "GetMap"} /\ lastOp.out = ErrNoRows

\* C9: a call whose context carries a wrapper with a non-nil Err returns that
\* Err at once: no callback, no GetDB, Begin, Commit, Rollback or ReleaseDB.
C9_NestedShortCircuit ==
    \A c \in Recs :
        Has(c, "Call") /\ EvOf(c, "Call").at # Nil =>
            c.evs = <<EvOf(c, "Call"),
                      Ev("Exit", "return", EvOf(c, "Call").at, EvOf(c, "Call").at)>>

\* a call has just been made with a context whose wrapper has an error latched
C9_Witness ==
    lastCall.kind = "tx" /\ Has(lastCall, "Call") /\ EvOf(lastCall, "Call").at # Nil

\* C10: a failure the driver reports during a facade operation, other than
\* sql.ErrNoRows, is latched into Err, and the call that began the transaction
\* then rolls back and returns it.
C10_FailuresLatched ==
    /\ lastOp.fail # Nil => wraps[lastOp.w].Err # Nil
    /\ OwnerEnded /\ EvOf(lastCall, "FnEnd").val = "return" /\ lastCall.first.by = "op"
           => N(lastCall, "Rollback") = 1

\* the call c ended before any callback ran and without Commit or Rollback
NoTxEffects(c) ==
    ~Has(c, "Fn") /\ ~Has(c, "FnEnd") /\ ~Has(c, "Commit") /\ ~Has(c, "Rollback")

\* C11: a call that fails before a transaction exists has no transaction side
\* effects: WithTx with a nil db returns an error without GetDB or Begin; a
\* GetDB error is returned as it is, without Begin; a nil DB from GetDB gives an
\* error, without Begin; a Begin error is returned as it is; in all four cases
\* no callback runs and neither Commit nor Rollback is called.
C11_PreTxFailures ==
    \A c \in Recs :
        /\ Has(c, "WithTx") =>
               c.evs = <<EvOf(c, "WithTx"), Ev("Exit", "return", ErrNilDBArg, Nil)>>
        /\ Has(c, "GetDB") /\ EvOf(c, "GetDB").err # Nil =>
               c.evs = <<EvOf(c, "Call"), EvOf(c, "GetDB"),
                         Ev("Exit", "return", EvOf(c, "GetDB").err, Nil)>>
        /\ Has(c, "GetDB") /\ EvOf(c, "GetDB").err = Nil /\ EvOf(c, "GetDB").val = Nil =>
               c.evs = <<EvOf(c, "Call"), EvOf(c, "GetDB"),
                         Ev("Exit", "return", ErrNilDB, Nil)>>
        /\ Has(c, "Begin") /\ EvOf(c, "Begin").err # Nil =>
               /\ NoTxEffects(c)
               /\ Exited(c)
               /\ EvOf(c, "Exit").val = "return"
               /\ EvOf(c, "Exit").err = EvOf(c, "Begin").err

\* a call has just ended because BeginTxx answered an error
C11_Witness ==
    lastCall.kind = "tx" /\ Has(lastCall, "Begin") /\ EvOf(lastCall, "Begin").err # Nil

\* the callback of the call that has just ended returned nil with no error latched
CleanReturn ==
    /\ OwnerEnded
    /\ EvOf(lastCall, "FnEnd").val = "return"
    /\ EvOf(lastCall, "FnEnd").err = Nil
    /\ EvOf(lastCall, "FnEnd").at = Nil

\* C12: when the callback completes with no error latched and Commit fails, the
\* call that began the transaction returns exactly the error of Commit, calls
\* Commit once and does not call Rollback.
C12_CommitError ==
    CleanReturn /\ Has(lastCall, "Commit") /\ EvOf(lastCall, "Commit").err # Nil =>
        /\ EvOf(lastCall, "Exit").val = "return"
        /\ EvOf(lastCall, "Exit").err = EvOf(lastCall, "Commit").err
        /\ N(lastCall, "Commit") = 1
        /\ N(lastCall, "Rollback") = 0
        /\ Pos(lastCall, "Commit") < Pos(lastCall, "Exit")

\* Commit has just failed after a callback that returned nil with no error latched
C12_Witness ==
    CleanReturn /\ Has(lastCall, "Commit") /\ EvOf(lastCall, "Commit").err # Nil

\* C13: if a nested call given tx.Context() latches an error E, by a failed
\* statement or by the error its callback returned, then when the callback of
\* the call that began the transaction returns, whatever it returns, that call
\* rolls back and returns E.
C13_NestedFailureNotHidden ==
    OwnerEnded /\ EvOf(lastCall, "FnEnd").val = "return" /\ lastCall.first.nested =>
        /\ N(lastCall, "Rollback") = 1
        /\ N(lastCall, "Commit") = 0
        /\ EvOf(lastCall, "Exit").val = "return"
        /\ EvOf(lastCall, "Exit").err = lastCall.first.err

\* the position in c of the Commit or Rollback call
EndPos(c) == CHOOSE i \in DOMAIN c.evs : c.evs[i].ev \in {"Commit", "Rollback"}

\* C14: in a call that began a transaction, ReleaseDB is called only after the
\* Commit or Rollback of that transaction, on every way out of the call, and
\* never while the callback runs and the transaction is open.
C14_ReleaseAfterEnd ==
    \A c \in Recs :
        c.owner =>
            /\ ~Exited(c) => ~Has(c, "ReleaseDB") /\ wraps[c.w].Txx = "open"
            /\ Has(c, "ReleaseDB") =>
                   /\ Has(c, "Commit") \/ Has(c, "Rollback")
                   /\ EndPos(c) < Pos(c, "ReleaseDB")
                   /\ Pos(c, "FnEnd") < EndPos(c)
                   /\ wraps[c.w].Txx = "done"

\* a panic has just left a call that began a transaction: Rollback, then ReleaseDB
C14_Witness ==
    /\ OwnerEnded
    /\ EvOf(lastCall, "FnEnd").val = "panic"
    /\ Has(lastCall, "Rollback")
    /\ Has(lastCall, "ReleaseDB")

\* the live calls that began the transaction of wrapper w
Owners(w) ==
    {<<g, i>> \in Goroutines \X (1..MaxDepth) :
        i <= Len(stack[g]) /\ stack[g][i].kind = "tx" /\ stack[g][i].owner /\ stack[g][i].w = w}

\* C15: a call whose context carries a wrapper with nil Err hands that very
\* wrapper to its callback and begins nothing, so what one level latches every
\* level sees; a wrapper has one transaction, begun by one call, open exactly
\* while that call runs.
C15_WrapperIdentity ==
    /\ \A c \in Recs :
           c.ctxw # NoTx /\ Has(c, "Fn") =>
               /\ c.w = c.ctxw
               /\ ~c.owner
               /\ N(c, "GetDB") = 0 /\ N(c, "Begin") = 0
    /\ \A w \in DOMAIN wraps :
           /\ Cardinality(Owners(w)) <= 1
           /\ wraps[w].Txx = "open" <=> Owners(w) # {}
    /\ lastOp.op \in DriverOps /\ lastOp.calls > 0 /\ lastOp.fail # Nil
          /\ lastOp.op # "SelectMaps" =>
           \A c \in Recs : c.w = lastOp.w /\ ~Exited(c) => wraps[c.w].Err = lastOp.fail

\* a statement has just failed in a nested call two levels deep, and the call
\* that began the transaction sees the error in its wrapper
C15_Witness ==
    /\ lastOp.op \in Ops /\ lastOp.fail # Nil
    /\ Len(stack["g1"]) >= 2
    /\ stack["g1"][1].owner
    /\ ~stack["g1"][2].owner
    /\ stack["g1"][2].kind = "tx"
    /\ stack["g1"][2].w = stack["g1"][1].w
    /\ lastOp.w = stack["g1"][1].w
    /\ wraps[stack["g1"][1].w].Err = lastOp.fail

\* IsTxWrapContext is true of tx.Context() and of a context derived from it,
\* false of a context not derived from any tx.Context()
CtxTestRight ==
    /\ \A w \in DOMAIN wraps :
           /\ IsTxWrapContext(Context(w))
           /\ IsTxWrapContext(WithValue(Context(w), otherKey, 1))
    /\ ~IsTxWrapContext(Background)
    /\ ~IsTxWrapContext(WithValue(Background, otherKey, 1))

\* a call made with a context without a wrapper, inside a callback, has its own
\* wrapper and transaction
SecondIndependent ==
    \A g \in Goroutines : \A i, j \in 1..Len(stack[g]) :
        i < j /\ stack[g][j].kind = "tx" /\ stack[g][j].ctxw = NoTx =>
            stack[g][j].owner /\ stack[g][j].w # stack[g][i].w

\* C16 as stated: IsTxWrapContext is right about contexts, and DBGWithTx calls
\* GetDB and Begin if and only if IsTxWrapContext(ctx) is false.
C16_Original ==
    /\ CtxTestRight
    /\ SecondIndependent
    /\ \A c \in Recs :
           Has(c, "Call") => (Has(c, "GetDB") /\ Has(c, "Begin") <=> c.ctxw = NoTx)

\* C16, amended: IsTxWrapContext is right about contexts; DBGWithTx calls GetDB
\* if and only if IsTxWrapContext(ctx) is false, and calls Begin if and only if
\* moreover GetDB gave a non-nil DB and no error; a call made inside a callback
\* with a context without a wrapper begins a second, independent transaction.
C16_ReuseAgreement ==
    /\ CtxTestRight
    /\ SecondIndependent
    /\ \A c \in Recs :
           Has(c, "Call") =>
               /\ N(c, "GetDB") = (IF c.ctxw = NoTx THEN 1 ELSE 0)
               /\ N(c, "Begin") = (IF c.ctxw = NoTx /\ GotDB(c) THEN 1 ELSE 0)

\* inside the callback of a call that began a transaction, a call made with the
\* background context runs its callback on a second transaction
C16_Witness ==
    /\ Len(stack["g1"]) >= 2
    /\ stack["g1"][1].owner
    /\ stack["g1"][2].owner
    /\ stack["g1"][2].ctxw = NoTx
    /\ stack["g1"][2].w # stack["g1"][1].w
    /\ wraps[stack["g1"][1].w].Txx = "open"
    /\ wraps[stack["g1"][2].w].Txx = "open"

\* C17: whatever context a call is given, its callback is invoked only with a
\* wrapper whose transaction has been begun and not yet committed or rolled
\* back, and no facade operation makes a driver call on a finished transaction.
C17_CallbackOnOpenTx ==
    /\ \A c \in Recs : Has(c, "Fn") => EvOf(c, "Fn").val = "open"
    /\ lastOp.calls > 0 => lastOp.out # ErrTxDone

\* each call made with a context without a wrapper runs its callback on a
\* wrapper and a transaction of its own
OwnTx ==
    /\ \A c \in Recs :
           c.ctxw = NoTx /\ Has(c, "Fn") => c.owner /\ N(c, "Begin") = 1 /\ c.w # NoTx
    /\ \A w \in DOMAIN wraps : Cardinality(Owners(w)) <= 1

\* an operation is short-circuited exactly when its own wrapper has an error
OwnShortCircuit ==
    lastOp.op \in DriverOps => (lastOp.calls = 0 <=> lastOp.before # Nil)

\* the call that began a transaction commits or rolls back, and returns, by the
\* Err of its own wrapper and what its own callback returned
OwnOutcome ==
    OwnerEnded /\ EvOf(lastCall, "FnEnd").val = "return" =>
        LET fe == EvOf(lastCall, "FnEnd")
            own == IF fe.at # Nil THEN fe.at ELSE fe.err
        IN  /\ wraps[lastCall.w].Err = own
            /\ own # Nil => Has(lastCall, "Rollback") /\ EvOf(lastCall, "Exit").err = own
            /\ own = Nil => /\ Has(lastCall, "Commit")
                            /\ EvOf(lastCall, "Exit").err = EvOf(lastCall, "Commit").err

\* a step changes only the wrapper of the operation or of the call that ended
OwnWrapperOnly ==
    \A w \in DOMAIN wraps :
        wraps'[w] # wraps[w] =>
            \/ lastOp'.op # "none" /\ lastOp'.w = w
            \/ lastCall'.kind = "tx" /\ lastCall'.w = w

\* C18: two calls made with contexts that carry no wrapper, one after the other
\* or interleaved in two goroutines, each have their own wrapper and
\* transaction; an error latched in one does not short-circuit the operations
\* of the other, does not change whether the other commits or rolls back, and
\* is not what the other returns.
C18_IndependentFlows ==
    [](OwnTx /\ OwnShortCircuit /\ OwnOutcome) /\ [][OwnWrapperOnly]_vars

\* two goroutines each run the callback of a call that began a transaction; the
\* wrapper of g1 has an error latched, and an operation of g2 has just asked
\* the driver and latched nothing
C18_Witness ==
    /\ stack["g1"] # <<>> /\ stack["g2"] # <<>>
    /\ stack["g1"][1].owner /\ stack["g2"][1].owner
    /\ stack["g1"][1].w # stack["g2"][1].w
    /\ wraps[stack["g1"][1].w].Err # Nil
    /\ wraps[stack["g2"][1].w].Err = Nil
    /\ lastOp.w = stack["g2"][1].w
    /\ lastOp.calls > 0

====
